---- MODULE Spec2Model ----
(***************************************************************************)
(* Model of the clai_queue_transcripts lambda: lambda_handler              *)
(* (src/lambda_function.py) with the Dedup Gate / Batch Builder            *)
(* prepare_sqs_messages and the chunked sender send_messages_to_sqs        *)
(* (src/utils/queue_management.py) and the Global-Id snapshot read         *)
(* download_existing_video_ids (src/utils/data_processing.py).             *)
(*                                                                         *)
(* Every invocation of lambda_handler is a run r.  A run is split at its   *)
(* calls to the external collaborators (S3, SQS, DynamoDB), so that runs   *)
(* interleave exactly where separate lambda invocations can; each such     *)
(* call either returns or raises.                                          *)
(***************************************************************************)
EXTENDS Integers, Sequences, FiniteSets, TLC

(* ------------------------------ bounds -------------------------------- *)
\* video ids of the small export files handled by concurrent runs
MaxId == 2
\* longest small export file (records after preprocessing)
MaxLen == 2
\* largest export file of the single-run specification (23 = 10 + 10 + 3)
MaxUnits == 23
\* longest record sequence given to the Dedup Gate on its own
MaxRecs == 4

\* longest watch-history export given to Parser A, and the entries of it
\* that may be defective
MaxEntries == 5
MaxDefects == 1
\* most entries of the likes and the subs list together given to Parser B
MaxItems == 3

Runs == {"r1", "r2"}
FileIds == {"f1", "f2"}
Ids == 1..MaxId

(* ------------------------- program constants -------------------------- *)
batch_size == 10
CLAI_EXPORTS_BUCKET_NAME == "clai-youtube-exports"
CLAI_LIGHT_EXPORTS_BUCKET_NAME == "clai-light-youtube-exports"

\* the export objects whose upload triggers a run: storage key (extension
\* stripped) and the bucket that holds it
Objects == {[file_id |-> "f1", s3_bucket |-> CLAI_EXPORTS_BUCKET_NAME],
            [file_id |-> "f2", s3_bucket |-> CLAI_LIGHT_EXPORTS_BUCKET_NAME]}

NoItem == [file_id |-> "none"]
NoResult == [file_id |-> "none"]

(* ----------------------------- data frames ---------------------------- *)
\* A DataFrame is a sequence of rows; a row carries its index label and
\* its video_id (the only column the Dedup Gate and the counters read).
Frame(ids) == [k \in 1..Len(ids) |-> [index |-> k - 1, video_id |-> ids[k]]]

Iota(n) == [k \in 1..n |-> k]

SeqsUpTo(S, n) == UNION {[1..k -> S] : k \in 0..n}

Distinct(s) == \A a, b \in 1..Len(s) : a # b => s[a] # s[b]

\* frames the two parsers can return: both end with drop_duplicates("video_id")
\* and an index reset, so video ids are pairwise distinct
SmallFrames == {Frame(s) : s \in {t \in SeqsUpTo(Ids, MaxLen) : Distinct(t)}}
LargeFrames == {Frame(Iota(n)) : n \in 0..MaxUnits}

\* the index reset left out: rows keep the labels they had in df
reset_index_Omitted(rows) == rows

\* df.reset_index(drop=True, inplace=True)
reset_index(rows) ==
    [k \in 1..Len(rows) |-> [rows[k] EXCEPT !.index = k - 1]]

(* ------------------------------ cleaning ------------------------------ *)
\* Strings that the code takes apart (URLs, video ids) are sequences of
\* characters.
Str(c, n) == [k \in 1..n |-> c]

\* url.split('=')[-1]
get_video_id(url) ==
    IF \E k \in 1..Len(url) : url[k] = "="
    THEN LET last == CHOOSE k \in 1..Len(url) :
                        /\ url[k] = "="
                        /\ \A j \in (k + 1)..Len(url) : url[j] # "="
         IN  SubSeq(url, last + 1, Len(url))
    ELSE url

\* A JSON entry: keys is the set of keys the object has, nulls the keys
\* whose value is null; the other fields are the values.  A DataFrame built
\* from a list of entries has the union of their keys as columns and NaN
\* where an entry lacks the key or holds null.
columns(entries) == UNION {entries[k].keys : k \in 1..Len(entries)}

isna(entry, col) == col \notin entry.keys \/ col \in entry.nulls

\* df.dropna(subset=cols)
dropna(entries, cols) ==
    SelectSeq(entries, LAMBDA e : \A col \in cols : ~isna(e, col))

\* list(subtitles[0].values())[0]; an IndexError when there is none
has_channel_name(subtitles) == Len(subtitles) > 0 /\ Len(subtitles[1]) > 0

extract_channel_name(subtitles) == subtitles[1][1]

\* df[df['video_id'].str.len() == 11]
id_len == 11

\* the length filter left out
valid_id_Any(video_id) == TRUE

valid_id(video_id) == Len(video_id) = id_len

\* drop_duplicates("video_id") keeping the last occurrence
RECURSIVE drop_duplicates_Last(_)
drop_duplicates_Last(rows) ==
    IF rows = <<>> THEN <<>>
    ELSE IF \E k \in 2..Len(rows) : rows[k].video_id = Head(rows).video_id
         THEN drop_duplicates_Last(Tail(rows))
         ELSE <<Head(rows)>> \o drop_duplicates_Last(Tail(rows))

\* df.drop_duplicates("video_id"): the first row of each video_id is kept
RECURSIVE drop_duplicates(_)
drop_duplicates(rows) ==
    IF rows = <<>> THEN <<>>
    ELSE LET front == drop_duplicates(SubSeq(rows, 1, Len(rows) - 1))
             last == rows[Len(rows)]
         IN  IF \E k \in 1..Len(front) : front[k].video_id = last.video_id
             THEN front
             ELSE Append(front, last)

ParserAColumns == {"titleUrl", "title", "subtitles", "time"}

\* the rows of preprocess_data_clai between dropna and the length filter
clai_row(e) ==
    [index |-> 0,
     video_id |-> get_video_id(e.titleUrl),
     channel_name |-> extract_channel_name(e.subtitles),
     title |-> e.title,
     watched_at |-> e.time,
     status |-> "CREATED"]

\* preprocess_data_clai(raw_data): the frame, or the exception raised
preprocess_data_clai(entries) ==
    IF ~(ParserAColumns \subseteq columns(entries))
    THEN [ok |-> FALSE, error |-> "KeyError"]
    ELSE LET kept == dropna(entries, ParserAColumns)
         IN  IF \E k \in 1..Len(kept) : ~has_channel_name(kept[k].subtitles)
             THEN [ok |-> FALSE, error |-> "IndexError"]
             ELSE LET rows == [k \in 1..Len(kept) |-> clai_row(kept[k])]
                      valid == SelectSeq(rows, LAMBDA row : valid_id(row.video_id))
                  IN  [ok |-> TRUE,
                       df |-> reset_index(drop_duplicates(valid))]

ParserBColumns == {"url", "title", "channelName"}

(* Timestamps are milliseconds; BadTime is a string that is no ISO date.    *)
BadTime == 0 - 1
\* pd.NaT
NaT == 0 - 1
\* the NaN that rank() gives a row whose value is NaT
NaNRank == 0

(* --------------------------- export contents -------------------------- *)
V1 == Str("a", id_len)
V2 == Str("b", id_len)
V3 == Str("c", id_len)
V4 == Str("d", id_len)

WatchUrl(id) == <<"w", "?", "v", "=">> \o id
ListUrl(id) == <<"l", "=", "x", "&", "v", "=">> \o id
TimedUrl(id) == WatchUrl(id) \o <<"&", "t", "=", "5">>
ChannelUrl == <<"c", "/", "U", "C", "x">>

\* an entry of the watch-history export
AEntry(url, chan, t) ==
    [keys |-> ParserAColumns, nulls |-> {},
     titleUrl |-> url, title |-> "t", subtitles |-> <<<<chan, "u">>>>, time |-> t]

\* entries 1..4 are complete and have an 11-character id (1 and 2 the same
\* id under two URLs); 5..10 lack a field, hold null, have an id that is not
\* 11 characters long, or have an empty subtitles list
AKinds ==
    <<AEntry(WatchUrl(V1), "A", 50),
      AEntry(ListUrl(V1), "B", 40),
      AEntry(WatchUrl(V2), "B", 30),
      AEntry(WatchUrl(V3), "C", 20),
      [AEntry(WatchUrl(V3), "C", 10) EXCEPT !.keys = @ \ {"title"}],
      [AEntry(WatchUrl(V2), "A", 10) EXCEPT !.keys = @ \ {"titleUrl"}],
      [AEntry(WatchUrl(V2), "A", 10) EXCEPT !.keys = @ \ {"subtitles"}],
      [AEntry(WatchUrl(V3), "A", 10) EXCEPT !.nulls = {"time"}],
      AEntry(TimedUrl(V4), "A", 10),
      [AEntry(WatchUrl(V4), "A", 10) EXCEPT !.subtitles = <<>>]>>

Complete(k) == k <= 4

\* the export whose entries are of the kinds t[1], t[2], ...
AInput(t) == [k \in 1..Len(t) |-> AKinds[t[k]]]

\* the entries of t that Parser A has a reason to drop or to fail on

Defects(t) == Cardinality({k \in 1..Len(t) : ~Complete(t[k])})

\* an entry of the likes or of the subs list
BEntry(url, chan, t) ==
    [keys |-> ParserBColumns \cup {"timestamp"}, nulls |-> {},
     url |-> url, timestamp |-> t, title |-> "t", channelName |-> chan]

BKinds ==
    {BEntry(WatchUrl(V1), "A", 50),
     BEntry(WatchUrl(V3), "A", 55),
     BEntry(WatchUrl(V2), "B", 30),
     BEntry(WatchUrl(V4), "B", 50),
     BEntry(WatchUrl(V1), "A", 90),
     BEntry(ChannelUrl, "C", 70),
     BEntry(WatchUrl(V3), "A", BadTime),
     [BEntry(WatchUrl(V2), "B", 0) EXCEPT !.nulls = {"timestamp"}],
     [BEntry(WatchUrl(V1), "A", 50) EXCEPT !.keys = @ \ {"title"}]}

BLikes == SeqsUpTo(BKinds, MaxItems)
BSubs(likes) == SeqsUpTo(BKinds, MaxItems - Len(likes))

\* to_datetime(val) in convert_to_datetime: isoparse, then the microseconds
\* cut to hundredths of a second; a ValueError gives NaT
to_datetime(val) == IF val = BadTime THEN NaT ELSE val - (val % 10)

\* order of the strings the code sorts or groups by
ChannelOrder == <<"A", "B", "C">>
TypeOrder == <<"like", "sub">>
Pos(order, x) == CHOOSE i \in 1..Len(order) : order[i] = x

MaxOf(S) == CHOOSE x \in S : \A y \in S : y <= x

channels(rows) == {rows[k].channel_name : k \in 1..Len(rows)}

\* df.groupby('channel_name')['watched_at'].max(): NaT is skipped
group_max(rows, c) ==
    LET vals == {rows[k].watched_at : k \in
                   {j \in 1..Len(rows) : /\ rows[j].channel_name = c
                                         /\ rows[j].watched_at # NaT}}
    IN  IF vals = {} THEN NaT ELSE MaxOf(vals)

\* the place of group c in the result of groupby, which sorts by group key
groupby_position(rows, c) == Pos(ChannelOrder, c)

\* calculate_sub_group_rank: rank(method='first', ascending=False) of the
\* group maxima, in the order groupby leaves them
calculate_sub_group_rank(rows) ==
    [c \in channels(rows) |->
        IF group_max(rows, c) = NaT THEN NaNRank
        ELSE 1 + Cardinality({d \in channels(rows) :
                   /\ group_max(rows, d) # NaT
                   /\ \/ group_max(rows, d) > group_max(rows, c)
                      \/ /\ group_max(rows, d) = group_max(rows, c)
                         /\ groupby_position(rows, d) < groupby_position(rows, c)})]

\* rank_within_group: rank(method='first', ascending=False) inside the group
rank_within_group(rows) ==
    [k \in 1..Len(rows) |->
        IF rows[k].watched_at = NaT THEN NaNRank
        ELSE 1 + Cardinality({j \in 1..Len(rows) :
                   /\ rows[j].channel_name = rows[k].channel_name
                   /\ rows[j].watched_at # NaT
                   /\ \/ rows[j].watched_at > rows[k].watched_at
                      \/ /\ rows[j].watched_at = rows[k].watched_at
                         /\ j < k})]

\* sort_values puts NaN after every number
na_last(rank, n) == IF rank = NaNRank THEN n + 1 ELSE rank

\* key a sorts strictly before key b (keys are triples)
KeyLess(a, b) ==
    \/ a[1] < b[1]
    \/ a[1] = b[1] /\ a[2] < b[2]
    \/ a[1] = b[1] /\ a[2] = b[2] /\ a[3] < b[3]

\* the stable sort of rows by key
SortBy(rows, key) ==
    LET n == Len(rows)
        place(k) == 1 + Cardinality({j \in 1..n :
                        \/ KeyLess(key[j], key[k])
                        \/ key[j] = key[k] /\ j < k})
    IN  [p \in 1..n |-> rows[CHOOSE k \in 1..n : place(k) = p]]

\* sort_dataframe: by video_rank_within_group, sub_group_rank, type
\* (key \o <<>> is key, held as a tuple so that each rank is computed once)
sort_dataframe(rows) ==
    LET n == Len(rows)
        sgr == calculate_sub_group_rank(rows)
        vr == rank_within_group(rows)
        key == [k \in 1..n |-> <<na_last(vr[k], n),
                                 na_last(sgr[rows[k].channel_name], n),
                                 Pos(TypeOrder, rows[k].type)>>] \o <<>>
    IN  SortBy(rows, key)

\* the rows left where the sort put them
move_type_to_top_Omitted(rows) == rows

\* move_type_to_top: the 'like' rows, then the others
move_type_to_top(rows) ==
    SelectSeq(rows, LAMBDA row : row.type = "like")
        \o SelectSeq(rows, LAMBDA row : row.type # "like")

\* convert_to_datetime(df)
convert_to_datetime(rows) ==
    [k \in 1..Len(rows) |->
        [rows[k] EXCEPT !.watched_at = to_datetime(rows[k].watched_at)]]

\* the steps of reorder_frame after convert_to_datetime
rank_and_order(rows) ==
    drop_duplicates(reset_index(move_type_to_top(sort_dataframe(rows))))

\* reorder_frame(df) for a frame whose timestamps are strings
reorder_frame(rows) == rank_and_order(convert_to_datetime(rows))

\* the rows of preprocess_data_clai_light that enter reorder_frame
light_row(e, type) ==
    [index |-> 0,
     video_id |-> get_video_id(e.url),
     watched_at |-> e.timestamp,
     title |-> e.title,
     channel_name |-> e.channelName,
     type |-> type]

\* df_concatenated after sort_values(by=['type', 'order']): the likes in
\* their order, then the subs in theirs
concatenated(items) ==
    [k \in 1..Len(items.likes) |-> [entry |-> items.likes[k], type |-> "like"]]
        \o [k \in 1..Len(items.subs) |-> [entry |-> items.subs[k], type |-> "sub"]]

\* the frame handed to reorder_frame
light_frame(items) ==
    LET kept == SelectSeq(concatenated(items),
                    LAMBDA t : \A col \in ParserBColumns : ~isna(t.entry, col))
    IN  [k \in 1..Len(kept) |-> light_row(kept[k].entry, kept[k].type)]

\* preprocess_data_clai_light(raw_data): the frame, or the exception raised
preprocess_data_clai_light(items) ==
    LET cols == columns(items.likes) \cup columns(items.subs)
    IN  IF ~(ParserBColumns \cup {"timestamp"} \subseteq cols)
        THEN [ok |-> FALSE, error |-> "KeyError"]
        ELSE LET kept == SelectSeq(concatenated(items),
                    LAMBDA t : \A col \in ParserBColumns : ~isna(t.entry, col))
             IN  IF \E k \in 1..Len(kept) : isna(kept[k].entry, "timestamp")
                 THEN [ok |-> FALSE, error |-> "TypeError"]
                 ELSE [ok |-> TRUE, df |-> reorder_frame(light_frame(items))]

(* ------------------- prepare_sqs_messages (pure part) ----------------- *)
\* the membership test inverted
isin_Inverted(video_id, existing_ids) == video_id \notin existing_ids

\* a membership test that finds nothing
isin_Never(video_id, existing_ids) == FALSE

\* df['video_id'].isin(existing_ids), row by row
isin(video_id, existing_ids) == video_id \in existing_ids

\* filtered_df = df[~df['video_id'].isin(existing_ids)].copy(deep=True)
filter_rows(df, existing_ids) ==
    SelectSeq(df, LAMBDA row : ~isin(row.video_id, existing_ids))

filtered_df(df, existing_ids) == reset_index(filter_rows(df, existing_ids))

\* record.get(col, default)
row_get(row, col, default) == IF col \in DOMAIN row THEN row[col] ELSE default

\* message_dict built in the loop body for the row at position k
message_dict(row, total_rows, file_id) ==
    [Id |-> row.video_id,
     file_id |-> file_id,
     video_id |-> row.video_id,
     type |-> row_get(row, "type", ""),
     current_transcript |-> row.index + 1,
     total_transcripts |-> total_rows]

\* the list returned by prepare_sqs_messages
prepare_sqs_messages(df, existing_ids, file_id) ==
    LET f == filtered_df(df, existing_ids)
    IN  [k \in 1..Len(f) |-> message_dict(f[k], Len(f), file_id)]

\* the add left out
add_id_Omitted(existing_ids, video_id) == existing_ids

\* existing_ids.add(video_id)
add_id(existing_ids, video_id) == existing_ids \cup {video_id}

RECURSIVE add_all(_, _)
add_all(existing_ids, rows) ==
    IF rows = <<>> THEN existing_ids
    ELSE add_all(add_id(existing_ids, Head(rows).video_id), Tail(rows))

\* existing_ids after prepare_sqs_messages (the set is mutated in place)
ids_after_prepare(df, existing_ids) ==
    add_all(existing_ids, filtered_df(df, existing_ids))

(* ------------------- send_messages_to_sqs (pure part) ----------------- *)
Min(a, b) == IF a < b THEN a ELSE b

\* a slice one entry short
batch_slice_Short(messages, i) ==
    SubSeq(messages, i + 1, Min(i + batch_size - 1, Len(messages)))

\* batch = messages[i:i + batch_size]   (i is the 0-based offset)
batch_slice(messages, i) ==
    SubSeq(messages, i + 1, Min(i + batch_size, Len(messages)))

\* the responses of send_message_batch: Successful holds the accepted
\* entries; the code reads only its length, so the accepted entries are
\* taken from the front of the batch
Responses(batch) ==
    {[Successful |-> SubSeq(batch, 1, k)] : k \in 0..Len(batch)}

\* successful_messages += len(response['Successful'])
count_successful(successful_messages, response) ==
    successful_messages + Len(response.Successful)

(* --------------------------- lambda_handler --------------------------- *)
\* result dictionary of lambda_handler after result.update(metadata)
make_result(num_ids_before, num_ids_after, df_rows, successful, meta) ==
    [num_videos_before |-> num_ids_before,
     num_videos_after |-> num_ids_after,
     new_videos_added |-> num_ids_after - num_ids_before,
     duplicates_not_added |-> df_rows - (num_ids_after - num_ids_before),
     messages_sent |-> successful,
     file_id |-> meta.file_id,
     s3_bucket |-> meta.s3_bucket]

\* the totals before and after exchanged
make_item_Swapped(result, n_messages) ==
    [file_id |-> result.file_id,
     file_origin_s3_bucket |-> result.s3_bucket,
     num_videos_file_unique |->
         ToString(result.duplicates_not_added + result.new_videos_added),
     num_videos_total_before |-> ToString(result.num_videos_after),
     num_videos_total_after |-> ToString(result.num_videos_before),
     num_videos_total_added |-> ToString(result.new_videos_added),
     num_videos_total_duplicate |-> ToString(result.duplicates_not_added),
     messages_sent |-> ToString(result.messages_sent),
     transcripts_last |-> (n_messages = 0)]

\* item written to the clai_files_status table
make_item(result, n_messages) ==
    [file_id |-> result.file_id,
     file_origin_s3_bucket |-> result.s3_bucket,
     num_videos_file_unique |->
         ToString(result.duplicates_not_added + result.new_videos_added),
     num_videos_total_before |-> ToString(result.num_videos_before),
     num_videos_total_after |-> ToString(result.num_videos_after),
     num_videos_total_added |-> ToString(result.new_videos_added),
     num_videos_total_duplicate |-> ToString(result.duplicates_not_added),
     messages_sent |-> ToString(result.messages_sent),
     transcripts_last |-> (n_messages = 0)]

\* the snapshot written unconditionally
should_write_snapshot_Always(result) == TRUE

\* the comparison reversed
should_write_snapshot_Reversed(result) == result.new_videos_added < 0

\* if result['new_videos_added'] > 0:
should_write_snapshot(result) == result.new_videos_added > 0

\* Body=pickle.dumps(existing_ids)
snapshot_body(existing_ids) == existing_ids

VARIABLES
    s3_ids,          \* the persisted Global-Id snapshot (all/all.pickle)
    table,           \* clai_files_status: file_id -> item
    labeling,        \* bodies accepted by the labeling (secondary) queue
    pc,              \* position of each run in lambda_handler
    metadata,        \* metadata returned by download_and_preprocess_data
    raw_data,        \* the export the run fetched, as json.loads returns it
    df,              \* preprocessed frame of the run
    existing_ids,    \* the run's in-memory Global-Id Set
    num_ids_before,  \* len(existing_ids) before the Dedup Gate
    messages,        \* Work Units of the run
    offset,          \* loop variable i of send_messages_to_sqs
    successful_messages, \* accumulator of send_messages_to_sqs
    result,          \* summary of the run
    loaded,          \* history: the snapshot the run read
    sqs_calls,       \* history: send_message_batch calls of the run
    status_writes,   \* history: table.put_item calls that succeeded
    snapshot_writes, \* history: s3.put_object calls that succeeded
    raised_at,       \* history: the step whose exception ended the run
    prev,            \* history: runs that had ended when the run began
    effects,         \* history: the run's calls to its collaborators, in order
    swallowed        \* history: the labeling-queue exception was logged and dropped

vars == <<s3_ids, table, labeling, pc, metadata, raw_data, df, existing_ids,
          num_ids_before, messages, offset, successful_messages, result,
          loaded, sqs_calls, status_writes, snapshot_writes, raised_at, prev,
          effects, swallowed>>

shared == <<s3_ids, table, labeling>>
locals == <<metadata, raw_data, df, existing_ids, num_ids_before, messages, offset,
            successful_messages, result>>
history == <<loaded, sqs_calls, status_writes, snapshot_writes, prev>>

NoMeta == [file_id |-> "none", s3_bucket |-> "none"]
NoRaw == <<>>

Init ==
    /\ s3_ids \in SUBSET Ids
    /\ table = [f \in FileIds |-> NoItem]
    /\ labeling = <<>>
    /\ pc = [r \in Runs |-> "idle"]
    /\ metadata = [r \in Runs |-> NoMeta]
    /\ raw_data = [r \in Runs |-> NoRaw]
    /\ df = [r \in Runs |-> <<>>]
    /\ existing_ids = [r \in Runs |-> {}]
    /\ num_ids_before = [r \in Runs |-> 0]
    /\ messages = [r \in Runs |-> <<>>]
    /\ offset = [r \in Runs |-> 0]
    /\ successful_messages = [r \in Runs |-> 0]
    /\ result = [r \in Runs |-> NoResult]
    /\ loaded = [r \in Runs |-> {}]
    /\ sqs_calls = [r \in Runs |-> <<>>]
    /\ status_writes = [r \in Runs |-> 0]
    /\ snapshot_writes = [r \in Runs |-> 0]
    /\ raised_at = [r \in Runs |-> "none"]
    /\ prev = [r \in Runs |-> {}]
    /\ effects = [r \in Runs |-> <<>>]
    /\ swallowed = [r \in Runs |-> FALSE]

Ended(r) == pc[r] \in {"done", "failed"}

\* except Exception as e: ... raise e
Raise(r, step) ==
    /\ pc' = [pc EXCEPT ![r] = "failed"]
    /\ raised_at' = [raised_at EXCEPT ![r] = step]

\* the call to a collaborator, recorded when it is made
Call(r, name) == effects' = [effects EXCEPT ![r] = Append(@, name)]

\* df, metadata = download_and_preprocess_data(event): the event is parsed,
\* the raw blob fetched and preprocessed; any failure raises
Preprocess(r, frames) ==
    /\ pc[r] = "idle"
    /\ prev' = [prev EXCEPT ![r] = {q \in Runs : Ended(q)}]
    /\ \/ /\ Raise(r, "event")
          /\ UNCHANGED <<metadata, df, effects>>
       \/ /\ \E step \in {"fetch", "bucket", "parse"} : Raise(r, step)
          /\ Call(r, "fetch")
          /\ UNCHANGED <<metadata, df>>
       \/ /\ \E o \in Objects, d \in frames :
                /\ metadata' = [metadata EXCEPT ![r] = o]
                /\ df' = [df EXCEPT ![r] = d]
          /\ Call(r, "fetch")
          /\ pc' = [pc EXCEPT ![r] = "download_ids"]
          /\ UNCHANGED raised_at
    /\ UNCHANGED <<shared, raw_data, existing_ids, num_ids_before, messages,
                   offset, successful_messages, result, loaded, sqs_calls,
                   status_writes, snapshot_writes, swallowed>>

\* existing_ids = download_existing_video_ids(); num_ids_before = len(...)
DownloadExistingIds(r) ==
    /\ pc[r] = "download_ids"
    /\ Call(r, "snapshot_read")
    /\ \/ /\ Raise(r, "snapshot_read")
          /\ UNCHANGED <<existing_ids, num_ids_before, loaded>>
       \/ /\ existing_ids' = [existing_ids EXCEPT ![r] = s3_ids]
          /\ num_ids_before' = [num_ids_before EXCEPT ![r] = Cardinality(s3_ids)]
          /\ loaded' = [loaded EXCEPT ![r] = s3_ids]
          /\ pc' = [pc EXCEPT ![r] = "prepare"]
          /\ UNCHANGED raised_at
    /\ UNCHANGED <<shared, metadata, raw_data, df, messages, offset,
                   successful_messages, result, sqs_calls, status_writes,
                   snapshot_writes, prev, swallowed>>

\* messages = prepare_sqs_messages(df, existing_ids, str(metadata["file_id"]))
PrepareMessages(r) ==
    /\ pc[r] = "prepare"
    /\ messages' = [messages EXCEPT
           ![r] = prepare_sqs_messages(df[r], existing_ids[r], metadata[r].file_id)]
    /\ existing_ids' = [existing_ids EXCEPT
           ![r] = ids_after_prepare(df[r], existing_ids[r])]
    /\ offset' = [offset EXCEPT ![r] = 0]
    /\ successful_messages' = [successful_messages EXCEPT ![r] = 0]
    /\ pc' = [pc EXCEPT ![r] = "send"]
    /\ UNCHANGED <<shared, metadata, raw_data, df, num_ids_before, result, history,
                   raised_at, effects, swallowed>>

\* one iteration of the loop of send_messages_to_sqs
SendBatch(r) ==
    /\ pc[r] = "send"
    /\ offset[r] < Len(messages[r])
    /\ Call(r, "queue_send")
    /\ LET batch == batch_slice(messages[r], offset[r])
       IN  \/ /\ Raise(r, "queue_send")
              /\ UNCHANGED <<offset, successful_messages, sqs_calls>>
           \/ /\ \E response \in Responses(batch) :
                    /\ successful_messages' = [successful_messages EXCEPT
                           ![r] = count_successful(@, response)]
                    /\ sqs_calls' = [sqs_calls EXCEPT
                           ![r] = Append(@, [Entries |-> batch,
                                             accepted |-> Len(response.Successful)])]
              /\ offset' = [offset EXCEPT ![r] = @ + batch_size]
              /\ UNCHANGED <<pc, raised_at>>
    /\ UNCHANGED <<shared, metadata, raw_data, df, existing_ids, num_ids_before,
                   messages, result, loaded, status_writes, snapshot_writes,
                   prev, swallowed>>

\* the snapshot stored as soon as the sends are over, before the status record
BuildResult_SnapshotFirst(r) ==
    /\ pc[r] = "send"
    /\ offset[r] >= Len(messages[r])
    /\ result' = [result EXCEPT
           ![r] = make_result(num_ids_before[r], Cardinality(existing_ids[r]),
                              Len(df[r]), successful_messages[r], metadata[r])]
    /\ s3_ids' = snapshot_body(existing_ids[r])
    /\ Call(r, "snapshot_write")
    /\ pc' = [pc EXCEPT ![r] = "put_item"]
    /\ UNCHANGED <<table, labeling, metadata, raw_data, df, existing_ids, num_ids_before,
                   messages, offset, successful_messages, history, raised_at,
                   swallowed>>

\* the loop of send_messages_to_sqs ends; lambda_handler builds result
BuildResult(r) ==
    /\ pc[r] = "send"
    /\ offset[r] >= Len(messages[r])
    /\ result' = [result EXCEPT
           ![r] = make_result(num_ids_before[r], Cardinality(existing_ids[r]),
                              Len(df[r]), successful_messages[r], metadata[r])]
    /\ pc' = [pc EXCEPT ![r] = "put_item"]
    /\ UNCHANGED <<shared, metadata, raw_data, df, existing_ids, num_ids_before,
                   messages, offset, successful_messages, history, raised_at,
                   effects, swallowed>>

\* table.put_item(Item=item)
PutItem(r) ==
    /\ pc[r] = "put_item"
    /\ Call(r, "status_upsert")
    /\ \/ /\ Raise(r, "status_upsert")
          /\ UNCHANGED <<table, status_writes>>
       \/ /\ table' = [table EXCEPT
                 ![result[r].file_id] = make_item(result[r], Len(messages[r]))]
          /\ status_writes' = [status_writes EXCEPT ![r] = @ + 1]
          /\ pc' = [pc EXCEPT ![r] = "put_object"]
          /\ UNCHANGED raised_at
    /\ UNCHANGED <<s3_ids, labeling, locals, loaded, sqs_calls,
                   snapshot_writes, prev, swallowed>>

\* the write storing only the ids the run admitted
PutObject_Delta(r) ==
    /\ pc[r] = "put_object"
    /\ IF should_write_snapshot(result[r])
       THEN /\ Call(r, "snapshot_write")
            /\ \/ /\ Raise(r, "snapshot_write")
                  /\ UNCHANGED <<s3_ids, snapshot_writes>>
               \/ /\ s3_ids' = snapshot_body(existing_ids[r] \ loaded[r])
                  /\ snapshot_writes' = [snapshot_writes EXCEPT ![r] = @ + 1]
                  /\ pc' = [pc EXCEPT ![r] = "notify"]
                  /\ UNCHANGED raised_at
       ELSE /\ pc' = [pc EXCEPT ![r] = "notify"]
            /\ UNCHANGED <<s3_ids, snapshot_writes, raised_at, effects>>
    /\ UNCHANGED <<table, labeling, locals, loaded, sqs_calls, status_writes,
                   prev, swallowed>>

\* if result['new_videos_added'] > 0: s3.put_object(Body=pickle.dumps(existing_ids), ...)
PutObject(r) ==
    /\ pc[r] = "put_object"
    /\ IF should_write_snapshot(result[r])
       THEN /\ Call(r, "snapshot_write")
            /\ \/ /\ Raise(r, "snapshot_write")
                  /\ UNCHANGED <<s3_ids, snapshot_writes>>
               \/ /\ s3_ids' = snapshot_body(existing_ids[r])
                  /\ snapshot_writes' = [snapshot_writes EXCEPT ![r] = @ + 1]
                  /\ pc' = [pc EXCEPT ![r] = "notify"]
                  /\ UNCHANGED raised_at
       ELSE /\ pc' = [pc EXCEPT ![r] = "notify"]
            /\ UNCHANGED <<s3_ids, snapshot_writes, raised_at, effects>>
    /\ UNCHANGED <<table, labeling, locals, loaded, sqs_calls, status_writes,
                   prev, swallowed>>

\* the forward to the labeling queue without its try/except
Notify_Propagates(r) ==
    /\ pc[r] = "notify"
    /\ Call(r, "notify")
    /\ \/ /\ labeling' = Append(labeling, [MessageGroupId |-> result[r].file_id])
          /\ pc' = [pc EXCEPT ![r] = "done"]
          /\ UNCHANGED raised_at
       \/ /\ Raise(r, "notify")
          /\ UNCHANGED labeling
    /\ UNCHANGED <<s3_ids, table, locals, history, swallowed>>

\* the forward to the labeling queue, its exception swallowed; return result
Notify(r) ==
    /\ pc[r] = "notify"
    /\ Call(r, "notify")
    /\ \/ /\ labeling' = Append(labeling, [MessageGroupId |-> result[r].file_id])
          /\ UNCHANGED swallowed
       \/ /\ swallowed' = [swallowed EXCEPT ![r] = TRUE]
          /\ UNCHANGED labeling
    /\ pc' = [pc EXCEPT ![r] = "done"]
    /\ UNCHANGED <<s3_ids, table, locals, history, raised_at>>

Steps(r) ==
    \/ DownloadExistingIds(r)
    \/ PrepareMessages(r)
    \/ SendBatch(r)
    \/ BuildResult(r)
    \/ PutItem(r)
    \/ PutObject(r)
    \/ Notify(r)

\* concurrent invocations on small export files
Next == \E r \in Runs : Preprocess(r, SmallFrames) \/ Steps(r)

Spec == Init /\ [][Next]_vars

\* one invocation on an export file of up to MaxUnits records
NextLarge == Preprocess("r1", LargeFrames) \/ Steps("r1")

SpecLarge == Init /\ [][NextLarge]_vars

\* the dispatch on the bucket in download_and_preprocess_data, applied to the
\* export the run fetched
ParseRaw(r) ==
    /\ pc[r] = "fetched"
    /\ LET res == IF metadata[r].s3_bucket = CLAI_EXPORTS_BUCKET_NAME
                  THEN preprocess_data_clai(raw_data[r])
                  ELSE IF metadata[r].s3_bucket = CLAI_LIGHT_EXPORTS_BUCKET_NAME
                  THEN preprocess_data_clai_light(raw_data[r])
                  ELSE [ok |-> FALSE, error |-> "ValueError"]
       IN  IF res.ok
           THEN /\ df' = [df EXCEPT ![r] = res.df]
                /\ pc' = [pc EXCEPT ![r] = "download_ids"]
                /\ UNCHANGED raised_at
           ELSE /\ Raise(r, res.error)
                /\ UNCHANGED df
    /\ UNCHANGED <<shared, metadata, raw_data, existing_ids, num_ids_before,
                   messages, offset, successful_messages, result, history,
                   effects, swallowed>>

\* one run whose export has been fetched: an export of either format
InitParse ==
    /\ s3_ids = {}
    /\ table = [f \in FileIds |-> NoItem]
    /\ labeling = <<>>
    /\ pc = [r \in Runs |-> IF r = "r1" THEN "fetched" ELSE "idle"]
    /\ \E o \in Objects :
          /\ metadata = [r \in Runs |-> IF r = "r1" THEN o ELSE NoMeta]
          /\ IF o.s3_bucket = CLAI_EXPORTS_BUCKET_NAME
             THEN \E t \in SeqsUpTo(1..Len(AKinds), MaxEntries) :
                     /\ Defects(t) <= MaxDefects
                     /\ raw_data = [r \in Runs |->
                                      IF r = "r1" THEN AInput(t) ELSE NoRaw]
             ELSE \E l \in BLikes : \E u \in BSubs(l) :
                     raw_data = [r \in Runs |->
                                   IF r = "r1" THEN [likes |-> l, subs |-> u]
                                   ELSE NoRaw]
    /\ df = [r \in Runs |-> <<>>]
    /\ existing_ids = [r \in Runs |-> {}]
    /\ num_ids_before = [r \in Runs |-> 0]
    /\ messages = [r \in Runs |-> <<>>]
    /\ offset = [r \in Runs |-> 0]
    /\ successful_messages = [r \in Runs |-> 0]
    /\ result = [r \in Runs |-> NoResult]
    /\ loaded = [r \in Runs |-> {}]
    /\ sqs_calls = [r \in Runs |-> <<>>]
    /\ status_writes = [r \in Runs |-> 0]
    /\ snapshot_writes = [r \in Runs |-> 0]
    /\ raised_at = [r \in Runs |-> "none"]
    /\ prev = [r \in Runs |-> {}]
    /\ effects = [r \in Runs |-> IF r = "r1" THEN <<"fetch">> ELSE <<>>]
    /\ swallowed = [r \in Runs |-> FALSE]

NextParse ==
    \/ ParseRaw("r1")
    \/ DownloadExistingIds("r1")
    \/ PrepareMessages("r1")

SpecParse == InitParse /\ [][NextParse]_vars

\* prepare_sqs_messages on its own: any record sequence (repeated video ids
\* included) against any Global-Id Set
InitGate ==
    /\ s3_ids = {}
    /\ table = [f \in FileIds |-> NoItem]
    /\ labeling = <<>>
    /\ pc = [r \in Runs |-> IF r = "r1" THEN "prepare" ELSE "idle"]
    /\ \E o \in Objects : metadata = [r \in Runs |-> IF r = "r1" THEN o ELSE NoMeta]
    /\ raw_data = [r \in Runs |-> NoRaw]
    /\ \E s \in SeqsUpTo(Ids, MaxRecs) :
          df = [r \in Runs |-> IF r = "r1" THEN Frame(s) ELSE <<>>]
    /\ \E g \in SUBSET Ids :
          /\ existing_ids = [r \in Runs |-> IF r = "r1" THEN g ELSE {}]
          /\ loaded = existing_ids
          /\ num_ids_before = [r \in Runs |-> Cardinality(existing_ids[r])]
    /\ messages = [r \in Runs |-> <<>>]
    /\ offset = [r \in Runs |-> 0]
    /\ successful_messages = [r \in Runs |-> 0]
    /\ result = [r \in Runs |-> NoResult]
    /\ sqs_calls = [r \in Runs |-> <<>>]
    /\ status_writes = [r \in Runs |-> 0]
    /\ snapshot_writes = [r \in Runs |-> 0]
    /\ raised_at = [r \in Runs |-> "none"]
    /\ prev = [r \in Runs |-> {}]
    /\ effects = [r \in Runs |-> <<>>]
    /\ swallowed = [r \in Runs |-> FALSE]

NextGate == PrepareMessages("r1")

SpecGate == InitGate /\ [][NextGate]_vars

(* ------------------------- auxiliary operators ------------------------ *)
FrameIds(d) == {d[k].video_id : k \in 1..Len(d)}
IdSeq(d) == [k \in 1..Len(d) |-> d[k].video_id]
WorkUnitSeq(r) == [k \in 1..Len(messages[r]) |-> messages[r][k].Id]
WorkUnitIds(r) == {messages[r][k].Id : k \in 1..Len(messages[r])}

\* the run has been through the Dedup Gate
Prepared(r) ==
    \/ pc[r] \in {"send", "put_item", "put_object", "notify", "done"}
    \/ pc[r] = "failed" /\
          raised_at[r] \in {"queue_send", "status_upsert", "snapshot_write"}

\* send_messages_to_sqs has returned
Sent(r) ==
    \/ pc[r] \in {"put_item", "put_object", "notify", "done"}
    \/ pc[r] = "failed" /\ raised_at[r] \in {"status_upsert", "snapshot_write"}

\* the run overlaps no other run: every other run ended before it began or
\* has not begun
Alone(r) == \A q \in Runs \ {r} : q \in prev[r] \/ pc[q] = "idle"

\* the two runs are in progress at the same time at some point
Overlap(r, q) == r # q /\ pc[r] # "idle" /\ pc[q] # "idle"
                   /\ q \notin prev[r] /\ r \notin prev[q]

RECURSIVE SumAccepted(_)
SumAccepted(calls) ==
    IF calls = <<>> THEN 0 ELSE Head(calls).accepted + SumAccepted(Tail(calls))

RECURSIVE Concat(_)
Concat(calls) ==
    IF calls = <<>> THEN <<>> ELSE Head(calls).Entries \o Concat(Tail(calls))

\* the ids of a record sequence that are not in g, in order
RECURSIVE NotIn(_, _)
NotIn(ids, g) ==
    IF ids = <<>> THEN <<>>
    ELSE (IF Head(ids) \in g THEN <<>> ELSE <<Head(ids)>>) \o NotIn(Tail(ids), g)

CeilDiv(m, n) == (m + n - 1) \div n

(* ------------------------------- claims ------------------------------- *)

\* C1: a run that ends by raising has written no status record and has
\* performed no Global-Id snapshot write.
C1_FailedRunWritesNothing ==
    \A r \in Runs :
        pc[r] = "failed" => status_writes[r] = 0 /\ snapshot_writes[r] = 0

\* C2 (as stated): runs one at a time; an id for which an earlier run
\* produced a Work Unit is never produced as a Work Unit by a later run.
C2_NoRepeatAfterEarlierRun ==
    \A r \in Runs : \A q \in prev[r] :
        WorkUnitIds(r) \cap WorkUnitIds(q) = {}

\* C2 (amended): runs one at a time; an id for which an earlier run that
\* returned its summary produced a Work Unit is never produced as a Work
\* Unit by a later run.
C2_NoRepeatAfterCompletedRun ==
    \A r \in Runs : \A q \in prev[r] :
        pc[q] = "done" => WorkUnitIds(r) \cap WorkUnitIds(q) = {}

C2_Witness ==
    \E r \in Runs : \E q \in prev[r] :
        /\ pc[q] = "done" /\ pc[r] = "done"
        /\ FrameIds(df[r]) \cap WorkUnitIds(q) # {}
        /\ WorkUnitIds(r) # {}

\* C3: for a run whose summary is built, new_videos_added is the growth of
\* the in-memory Global-Id Set and the number of Work Units, new_videos_added
\* plus duplicates_not_added is the number of input records, and neither
\* counter is negative.
C3_DedupAccounting ==
    \A r \in Runs :
        Sent(r) =>
            /\ result[r].num_videos_before = Cardinality(loaded[r])
            /\ result[r].num_videos_after = Cardinality(existing_ids[r])
            /\ result[r].new_videos_added =
                   Cardinality(existing_ids[r]) - Cardinality(loaded[r])
            /\ result[r].new_videos_added = Len(messages[r])
            /\ result[r].new_videos_added + result[r].duplicates_not_added
                   = Len(df[r])
            /\ result[r].new_videos_added >= 0
            /\ result[r].duplicates_not_added >= 0

C3_Witness ==
    \E r \in Runs :
        /\ pc[r] = "done"
        /\ Cardinality(loaded[r]) = 1
        /\ Len(df[r]) = 4
        /\ Len(messages[r]) = 3
        /\ result[r].new_videos_added = 3
        /\ result[r].duplicates_not_added = 1
        /\ result[r].num_videos_after = 4

\* C4 (as stated): after the Dedup Gate no Work Unit has an id that was in
\* the Global-Id Set, and no two Work Units share an id.
C4_AdmitsEachIdOnce ==
    pc["r1"] = "send" =>
        /\ WorkUnitIds("r1") \cap loaded["r1"] = {}
        /\ \A a, b \in 1..Len(messages["r1"]) :
               a # b => messages["r1"][a].Id # messages["r1"][b].Id

\* C4 (amended): the Work Units are exactly the input records whose id was
\* not in the Global-Id Set when the gate was called, in input order (a
\* repeated id not in the set yields one Work Unit per record), and the set
\* afterwards is the set before united with the Work Unit ids.
C4_AdmitsIdsNotInSetAtCall ==
    pc["r1"] = "send" =>
        /\ WorkUnitSeq("r1") = NotIn(IdSeq(df["r1"]), loaded["r1"])
        /\ existing_ids["r1"] = loaded["r1"] \cup WorkUnitIds("r1")

C4_Witness ==
    /\ pc["r1"] = "send"
    /\ FrameIds(df["r1"]) \cap loaded["r1"] # {}
    /\ Len(messages["r1"]) > Cardinality(WorkUnitIds("r1"))

\* C5 (as stated): under any interleaving of runs no step removes an id from
\* the persisted Global-Id snapshot.
C5_SnapshotOnlyGrows == [][s3_ids \subseteq s3_ids']_vars

\* C5 (amended): a snapshot write never removes an id its run loaded, and a
\* snapshot write of a run that overlaps no other run removes no id from the
\* persisted snapshot.
C5_SnapshotGrowsWithoutOverlap ==
    [][\A r \in Runs :
          snapshot_writes'[r] # snapshot_writes[r] =>
              /\ loaded[r] \subseteq s3_ids'
              /\ Alone(r) => s3_ids \subseteq s3_ids']_vars

C5_Witness ==
    \E r \in Runs :
        /\ Alone(r)
        /\ prev[r] # {}
        /\ snapshot_writes[r] = 1
        /\ loaded[r] # {}
        /\ loaded[r] # s3_ids

\* C6: two overlapping runs that loaded the same snapshot both admit an id
\* that is in both inputs and not in that snapshot: both produce a Work Unit
\* for it and both count it in new_videos_added.
C6_BothAdmit ==
    \A r, q \in Runs : \A x \in Ids :
        (/\ Overlap(r, q) /\ Prepared(r) /\ Prepared(q)
         /\ loaded[r] = loaded[q] /\ x \notin loaded[r]
         /\ x \in FrameIds(df[r]) \cap FrameIds(df[q]))
        => /\ x \in WorkUnitIds(r) \cap WorkUnitIds(q)
           /\ x \in existing_ids[r] \cap existing_ids[q]
           /\ Sent(r) => result[r].new_videos_added = Cardinality(WorkUnitIds(r))
           /\ Sent(q) => result[q].new_videos_added = Cardinality(WorkUnitIds(q))

C6_Witness ==
    \E r, q \in Runs : \E x \in Ids :
        /\ Overlap(r, q) /\ pc[r] = "done" /\ pc[q] = "done"
        /\ loaded[r] = loaded[q]
        /\ x \in WorkUnitIds(r) \cap WorkUnitIds(q)
        /\ result[r].new_videos_added = 1 /\ result[q].new_videos_added = 1

\* C7: a chunk whose send fails after earlier chunks were handed to the
\* queue does not end the run, and the status record written by the run
\* carries the number of Work Units the queue accepted.
C7_PartialDeliveryReported ==
    \A r \in Runs :
        /\ ~(raised_at[r] = "queue_send" /\ sqs_calls[r] # <<>>)
        /\ status_writes[r] > 0 =>
               table[metadata[r].file_id].messages_sent
                   = ToString(SumAccepted(sqs_calls[r]))

\* C8: when send_messages_to_sqs has returned for M Work Units it has made
\* ceil(M/10) send calls, the chunks are consecutive slices of the Work Unit
\* list, each of 10 entries except possibly the last, and messages_sent is
\* the sum of the accepted counts.
C8_Chunking ==
    \A r \in Runs :
        Sent(r) =>
            /\ Len(sqs_calls[r]) = CeilDiv(Len(messages[r]), 10)
            /\ Concat(sqs_calls[r]) = messages[r]
            /\ \A c \in 1..Len(sqs_calls[r]) :
                   /\ Len(sqs_calls[r][c].Entries) \in 1..10
                   /\ c < Len(sqs_calls[r]) => Len(sqs_calls[r][c].Entries) = 10
            /\ result[r].messages_sent = SumAccepted(sqs_calls[r])

C8_Witness ==
    \E r \in Runs :
        /\ pc[r] = "done"
        /\ Len(messages[r]) = 23
        /\ [c \in 1..Len(sqs_calls[r]) |-> Len(sqs_calls[r][c].Entries)]
               = <<10, 10, 3>>
        /\ [c \in 1..Len(sqs_calls[r]) |-> sqs_calls[r][c].accepted]
               = <<10, 10, 2>>
        /\ result[r].messages_sent = 22

\* C9: the i-th Work Unit of a run is the i-th deduplicated record, has
\* position_in_batch = i and batch_total = the number of Work Units, also as
\* an entry of a delivery chunk.
C9_BatchNumbering ==
    \A r \in Runs :
        Prepared(r) =>
            /\ LET kept == NotIn(IdSeq(df[r]), loaded[r])
               IN  \A k \in 1..Len(messages[r]) :
                      /\ messages[r][k].current_transcript = k
                      /\ messages[r][k].total_transcripts = Len(messages[r])
                      /\ messages[r][k].video_id = kept[k]
            /\ \A c \in 1..Len(sqs_calls[r]) :
                   \A j \in 1..Len(sqs_calls[r][c].Entries) :
                      /\ sqs_calls[r][c].Entries[j].current_transcript
                             = (c - 1) * 10 + j
                      /\ sqs_calls[r][c].Entries[j].total_transcripts
                             = Len(messages[r])

C9_Witness ==
    \E r \in Runs :
        /\ Len(sqs_calls[r]) = 2
        /\ Len(messages[r]) < Len(df[r])
        /\ sqs_calls[r][2].Entries[1].current_transcript = 11
        /\ sqs_calls[r][2].Entries[1].video_id = 13

\* C10: the snapshot changes only by the single write of a run that admitted
\* a new id, and that write stores the loaded set united with the admitted
\* ids; a run that admitted none writes nothing, a completed run that
\* admitted some has written exactly once.
C10_SnapshotWrittenIffGrew ==
    /\ [](\A r \in Runs :
            /\ snapshot_writes[r] <= 1
            /\ (Sent(r) /\ result[r].new_videos_added = 0)
                   => snapshot_writes[r] = 0
            /\ (pc[r] = "done" /\ result[r].new_videos_added > 0)
                   => snapshot_writes[r] = 1)
    /\ [][/\ s3_ids' # s3_ids =>
                \E r \in Runs : snapshot_writes'[r] # snapshot_writes[r]
          /\ \A r \in Runs :
                snapshot_writes'[r] # snapshot_writes[r] =>
                    /\ result[r].new_videos_added > 0
                    /\ s3_ids' = loaded[r] \cup WorkUnitIds(r)]_vars

C10_Witness ==
    \E r, q \in Runs :
        /\ pc[r] = "done" /\ result[r].new_videos_added = 0
        /\ Len(df[r]) > 0 /\ snapshot_writes[r] = 0
        /\ pc[q] = "done" /\ result[q].new_videos_added > 0
        /\ snapshot_writes[q] = 1

\* C11: the step of the secondary notify, whether the forward succeeds or
\* fails, ends the run normally and changes neither the summary, nor the
\* status table, nor the Global-Id snapshot.
C11_NotifyBestEffort ==
    [][\A r \in Runs :
          (pc[r] = "notify" /\ pc'[r] # "notify") =>
              /\ pc'[r] = "done"
              /\ raised_at'[r] = "none"
              /\ result'[r] = result[r]
              /\ table' = table
              /\ s3_ids' = s3_ids]_vars

C11_Witness ==
    \E r \in Runs :
        /\ pc[r] = "done" /\ swallowed[r]
        /\ status_writes[r] = 1 /\ snapshot_writes[r] = 1
        /\ result[r].messages_sent > 0

\* C14: a run upserts its status record at most once, a completed run exactly
\* once, and the upsert stores under the run's file_id the run's counts (total
\* before, total after, added, duplicate, messages_sent) and touches no other
\* key.
C14_StatusUpsertOnce ==
    /\ [](\A r \in Runs :
            /\ status_writes[r] <= 1
            /\ pc[r] = "done" => status_writes[r] = 1)
    /\ [][\A r \in Runs :
            status_writes'[r] # status_writes[r] =>
                LET f == metadata[r].file_id
                    item == table'[f]
                IN  /\ item.file_id = f
                    /\ item.num_videos_total_before
                           = ToString(Cardinality(loaded[r]))
                    /\ item.num_videos_total_after
                           = ToString(Cardinality(existing_ids[r]))
                    /\ item.num_videos_total_added
                           = ToString(Len(messages[r]))
                    /\ item.num_videos_total_duplicate
                           = ToString(Len(df[r]) - Len(messages[r]))
                    /\ item.messages_sent
                           = ToString(SumAccepted(sqs_calls[r]))
                    /\ \A g \in FileIds \ {f} : table'[g] = table[g]]_vars

C14_Witness ==
    \E r \in Runs :
        /\ pc[r] = "done" /\ status_writes[r] = 1
        /\ Cardinality(loaded[r]) = 1
        /\ table[metadata[r].file_id].num_videos_total_before = "1"
        /\ table[metadata[r].file_id].num_videos_total_after = "2"
        /\ table[metadata[r].file_id].num_videos_total_duplicate = "1"
        /\ table[metadata[r].file_id].messages_sent = "0"

\* the run of SpecParse has its frame from the parser of its bucket
ParsedA ==
    /\ metadata["r1"].s3_bucket = CLAI_EXPORTS_BUCKET_NAME
    /\ pc["r1"] \in {"download_ids", "prepare", "send"}

ParsedB ==
    /\ metadata["r1"].s3_bucket = CLAI_LIGHT_EXPORTS_BUCKET_NAME
    /\ pc["r1"] \in {"download_ids", "prepare", "send"}

\* C12: every Work Unit key and every id in the run's Global-Id Set has
\* exactly 11 characters, whichever parser produced the records.
C12_IdsHaveElevenChars ==
    /\ \A k \in 1..Len(messages["r1"]) : Len(messages["r1"][k].Id) = 11
    /\ \A v \in existing_ids["r1"] : Len(v) = 11

\* C13: Parser A labels every record "watch", Parser B labels the records of
\* the likes list "like" and those of the subs list "subscribe", and a Work
\* Unit carries the label of its record.
C13_CategoryLabels ==
    /\ ParsedA =>
          \A k \in 1..Len(df["r1"]) : row_get(df["r1"][k], "type", "") = "watch"
    /\ ParsedB =>
          \A k \in 1..Len(df["r1"]) :
             LET row == df["r1"][k]
                 from(list) == \E j \in 1..Len(list) :
                                  /\ ~isna(list[j], "url")
                                  /\ get_video_id(list[j].url) = row.video_id
             IN  \/ row.type = "like" /\ from(raw_data["r1"].likes)
                 \/ row.type = "subscribe" /\ from(raw_data["r1"].subs)
    /\ (ParsedA \/ ParsedB) =>
          \A k \in 1..Len(messages["r1"]) :
             \E j \in 1..Len(df["r1"]) :
                /\ df["r1"][j].video_id = messages["r1"][k].video_id
                /\ messages["r1"][k].type = row_get(df["r1"][j], "type", "")
                /\ messages["r1"][k].type \in {"watch", "like", "subscribe"}

\* C15: the output of Parser A is the sequence of the input entries that
\* have URL, title, subtitles and timestamp, whose id has 11 characters and
\* whose id no earlier such entry has, in input order: ids of 11 characters,
\* pairwise distinct, each record that of the first occurrence of its id.
C15_ParserA ==
    ParsedA =>
        LET E == raw_data["r1"]
            out == df["r1"]
            ok(k) == /\ \A col \in {"titleUrl", "title", "subtitles", "time"} :
                           col \in E[k].keys /\ col \notin E[k].nulls
                     /\ Len(get_video_id(E[k].titleUrl)) = 11
            first(k) == \A j \in 1..(k - 1) :
                           ok(j) => get_video_id(E[j].titleUrl)
                                       # get_video_id(E[k].titleUrl)
            keep == SelectSeq(Iota(Len(E)), LAMBDA k : ok(k) /\ first(k))
        IN  /\ \A p \in 1..Len(out) : Len(out[p].video_id) = 11
            /\ \A p, q \in 1..Len(out) :
                   p # q => out[p].video_id # out[q].video_id
            /\ Len(out) = Len(keep)
            /\ \A p \in 1..Len(out) :
                   /\ out[p].video_id = get_video_id(E[keep[p]].titleUrl)
                   /\ out[p].channel_name = E[keep[p]].subtitles[1][1]
                   /\ out[p].watched_at = E[keep[p]].time
                   /\ out[p].index = p - 1

\* 5 entries, two of them with the same id, one without a title: 3 records
C15_Witness ==
    /\ ParsedA
    /\ Len(raw_data["r1"]) = 5
    /\ Cardinality({k \in 1..5 : "title" \notin raw_data["r1"][k].keys}) = 1
    /\ \E j, k \in 1..5 :
          /\ j < k
          /\ raw_data["r1"][j].keys = ParserAColumns
          /\ raw_data["r1"][k].keys = ParserAColumns
          /\ raw_data["r1"][j].titleUrl # raw_data["r1"][k].titleUrl
          /\ get_video_id(raw_data["r1"][j].titleUrl)
                = get_video_id(raw_data["r1"][k].titleUrl)
          /\ \E p \in 1..Len(df["r1"]) :
                df["r1"][p].channel_name = raw_data["r1"][j].subtitles[1][1]
    /\ Len(df["r1"]) = 3

\* a likes or subs entry that the missing-field drop keeps
KeptB(e) == \A col \in {"url", "title", "channelName"} : ~isna(e, col)

\* C16: the output of Parser B has no two records with the same video_id,
\* every "like" record comes before every record of another type, and an id
\* that has a record in the likes list and one in the subs list is in the
\* output as a "like" record.
C16_ParserB ==
    ParsedB =>
        LET out == df["r1"]
            likes == raw_data["r1"].likes
            subs == raw_data["r1"].subs
        IN  /\ \A p, q \in 1..Len(out) :
                   p # q => out[p].video_id # out[q].video_id
            /\ \A p, q \in 1..Len(out) :
                   (p < q /\ out[q].type = "like") => out[p].type = "like"
            /\ \A j \in 1..Len(likes) : \A k \in 1..Len(subs) :
                   (/\ KeptB(likes[j]) /\ KeptB(subs[k])
                    /\ get_video_id(likes[j].url) = get_video_id(subs[k].url))
                   => \E p \in 1..Len(out) :
                         /\ out[p].video_id = get_video_id(likes[j].url)
                         /\ out[p].type = "like"

C16_Witness ==
    /\ ParsedB
    /\ \E j \in 1..Len(raw_data["r1"].likes) :
       \E k \in 1..Len(raw_data["r1"].subs) :
          /\ KeptB(raw_data["r1"].likes[j]) /\ KeptB(raw_data["r1"].subs[k])
          /\ get_video_id(raw_data["r1"].likes[j].url)
                = get_video_id(raw_data["r1"].subs[k].url)
          /\ raw_data["r1"].subs[k].timestamp > raw_data["r1"].likes[j].timestamp
    /\ \E p, q \in 1..Len(df["r1"]) :
          /\ df["r1"][p].type = "like" /\ df["r1"][q].type = "sub"
          /\ df["r1"][q].watched_at > df["r1"][p].watched_at

\* C17: ranking the output of the Ranking Engine again leaves the order of
\* its records as it is.
C17_RankingIdempotent ==
    ParsedB => IdSeq(rank_and_order(df["r1"])) = IdSeq(df["r1"])

\* the first row of channel c
first_seen(rows, c) ==
    CHOOSE k \in 1..Len(rows) :
        /\ rows[k].channel_name = c
        /\ \A j \in 1..(k - 1) : rows[j].channel_name # c

\* C18: of two channel groups the one with the more recent latest timestamp
\* has the smaller rank, and of two groups with the same latest timestamp
\* the one seen first; inside a group the more recent record has the smaller
\* rank, and of two records with the same timestamp the one seen first.
C18_GroupRanking ==
    ParsedB =>
        LET rows == convert_to_datetime(light_frame(raw_data["r1"]))
            sgr == calculate_sub_group_rank(rows)
            vr == rank_within_group(rows)
            top(c) == group_max(rows, c)
        IN  /\ \A c, d \in channels(rows) :
                   (c # d /\ top(c) # NaT /\ top(d) # NaT) =>
                       (sgr[c] < sgr[d] <=>
                           \/ top(c) > top(d)
                           \/ /\ top(c) = top(d)
                              /\ first_seen(rows, c) < first_seen(rows, d))
            /\ \A j, k \in 1..Len(rows) :
                   (/\ j # k /\ rows[j].channel_name = rows[k].channel_name
                    /\ rows[j].watched_at # NaT /\ rows[k].watched_at # NaT) =>
                       (vr[j] < vr[k] <=>
                           \/ rows[j].watched_at > rows[k].watched_at
                           \/ /\ rows[j].watched_at = rows[k].watched_at
                              /\ j < k)

\* C19: a record whose timestamp is missing or is no date does not make the
\* ranking raise, is in the output unless another record has its video_id,
\* and comes after every record of its channel with a valid timestamp.
C19_BadTimestampTolerated ==
    /\ raised_at["r1"] # "TypeError"
    /\ ParsedB =>
          LET rows == light_frame(raw_data["r1"])
              out == df["r1"]
          IN  /\ \A k \in 1..Len(rows) :
                     \E p \in 1..Len(out) : out[p].video_id = rows[k].video_id
              /\ \A p, q \in 1..Len(out) :
                     (/\ out[p].channel_name = out[q].channel_name
                      /\ out[p].watched_at = NaT /\ out[q].watched_at # NaT)
                     => q < p

Phase(name) ==
    CASE name = "fetch" -> 1
      [] name = "snapshot_read" -> 2
      [] name = "queue_send" -> 3
      [] name = "status_upsert" -> 4
      [] name = "snapshot_write" -> 5
      [] name = "notify" -> 6

Times(e, name) == Cardinality({k \in 1..Len(e) : e[k] = name})

\* C20: the calls of a run to its collaborators come in the order raw-blob
\* fetch, snapshot read, queue sends, status upsert, snapshot write, notify;
\* every call but the queue send is made at most once, none is made before
\* the ones the handler places ahead of it, and the status upsert comes after
\* all ceil(M/10) queue sends.
C20_EffectOrder ==
    \A r \in Runs :
        LET e == effects[r]
        IN  /\ \A a, b \in 1..Len(e) : a < b => Phase(e[a]) <= Phase(e[b])
            /\ \A a, b \in 1..Len(e) :
                   (a < b /\ e[a] = e[b]) => e[a] = "queue_send"
            /\ Len(e) >= 1 => e[1] = "fetch"
            /\ Len(e) >= 2 => e[2] = "snapshot_read"
            /\ Times(e, "status_upsert") = 1 =>
                   Times(e, "queue_send") = CeilDiv(Len(messages[r]), 10)
            /\ Times(e, "snapshot_write") = 1 => Times(e, "status_upsert") = 1
            /\ Times(e, "notify") = 1 => Times(e, "status_upsert") = 1

\* a run stopped between its queue sends and its snapshot write: Work Units
\* were accepted for ids the persisted snapshot does not hold
C20_Witness ==
    \E r \in Runs :
        /\ pc[r] = "failed"
        /\ raised_at[r] \in {"status_upsert", "snapshot_write"}
        /\ Times(effects[r], "queue_send") = 3
        /\ SumAccepted(sqs_calls[r]) = Len(messages[r])
        /\ WorkUnitIds(r) # {}
        /\ WorkUnitIds(r) \cap s3_ids = {}

====
